---- MODULE Spec2Model ----
(***************************************************************************)
(* hashver: a dotted version string <-> one integer, under a profile of    *)
(* bit widths (HashVer.bits_per_component).                                *)
(*                                                                         *)
(* A string is a sequence of one-character strings, so that split, int,    *)
(* str and join are computed and not assumed.  Three specifications:       *)
(*   Spec      calls of get_num / get_version_str on one HashVer object;   *)
(*   SpecPair  the test loop that encodes a list of two builds;            *)
(*   SpecCLI   main()'s loop over the command-line arguments.              *)
(***************************************************************************)
EXTENDS Integers, Sequences, FiniteSets, TLC

VARIABLES
    ctor_bpc,           \* the bits_per_component the object was constructed with
    bits_per_component, \* HashVer.bits_per_component
    op,                 \* the last call made on the object
    version_str,        \* argument of the last get_num call
    num,                \* argument of the last get_version_str call
    ret,                \* outcome of the last call: a value or a raised exception
    calls,              \* number of calls made on the object so far
    raised,             \* whether some call on the object has raised
    builds,             \* the test loop's list of version strings
    results,            \* the test loop's get_num outcomes, one per build done
    argv,               \* main(): sys.argv[1:] once --bpc is removed
    out,                \* main(): the lines printed so far
    pc                  \* main(): "loop", "done" or "crashed" (uncaught exception)

vars == <<ctor_bpc, bits_per_component, op, version_str, num, ret, calls, raised,
          builds, results, argv, out, pc>>

-----------------------------------------------------------------------------
(* Bounds *)

\* Total number of bits of a profile: profiles are all width lists w_1..w_n
\* with every w_i >= 1 and w_1 + ... + w_n <= MaxBits.
MaxBits == 4

\* Longest version string drawn from the raw alphabet.
MaxLen == 4

\* Calls made on one object.
MaxCalls == 3

\* Command-line arguments.
MaxArgs == 2

-----------------------------------------------------------------------------
(* Python built-ins the codec uses *)

DigitChars == <<"0", "1", "2", "3", "4", "5", "6", "7", "8", "9">>

IsDigit(c) == \E d \in 1..10 : DigitChars[d] = c

DigitVal(c) == (CHOOSE d \in 1..10 : DigitChars[d] = c) - 1

RECURSIVE Pow2(_)
Pow2(n) == IF n <= 0 THEN 1 ELSE 2 * Pow2(n - 1)

\* str.split(sep): always at least one piece; "" gives [""].
RECURSIVE split(_, _)
split(s, sep) ==
    IF \A i \in 1..Len(s) : s[i] # sep
    THEN <<s>>
    ELSE LET k == CHOOSE i \in 1..Len(s) :
                    s[i] = sep /\ \A j \in 1..(i - 1) : s[j] # sep
         IN  <<SubSeq(s, 1, k - 1)>> \o split(SubSeq(s, k + 1, Len(s)), sep)

\* sep.join(parts)
RECURSIVE join(_, _)
join(parts, sep) ==
    IF Len(parts) = 0 THEN <<>>
    ELSE IF Len(parts) = 1 THEN parts[1]
    ELSE parts[1] \o <<sep>> \o join(Tail(parts), sep)

\* str.isdigit(): non-empty and digits only.
isdigit(s) == Len(s) > 0 /\ \A i \in 1..Len(s) : IsDigit(s[i])

RECURSIVE DecVal(_)
DecVal(s) ==
    IF Len(s) = 0 THEN 0
    ELSE 10 * DecVal(SubSeq(s, 1, Len(s) - 1)) + DigitVal(s[Len(s)])

\* str(n) of an integer: canonical decimal, "-" for a negative one.
RECURSIVE str(_)
str(n) ==
    IF n < 0 THEN <<"-">> \o str(-n)
    ELSE IF n < 10 THEN <<DigitChars[n + 1]>>
    ELSE str(n \div 10) \o <<DigitChars[(n % 10) + 1]>>

\* Outcomes of a call: a returned int, a returned str, or a raised exception
\* (class name and message; a message is the list of its format pieces).
ReturnInt(n) == [kind |-> "int", val |-> n, str |-> <<>>, exc |-> "", msg |-> <<>>]

ReturnStr(s) == [kind |-> "str", val |-> 0, str |-> s, exc |-> "", msg |-> <<>>]

Raise(e, m) == [kind |-> "raise", val |-> 0, str |-> <<>>, exc |-> e, msg |-> m]

NoReturn == [kind |-> "none", val |-> 0, str |-> <<>>, exc |-> "", msg |-> <<>>]

\* int(s) over the modelled alphabet (digits, "-", ".", "x"): an optional
\* sign and at least one digit, else ValueError.  Leading zeros are accepted.
int(s) ==
    LET neg  == Len(s) > 0 /\ s[1] = "-"
        body == IF neg THEN Tail(s) ELSE s
    IN  IF isdigit(body)
        THEN ReturnInt(IF neg THEN -DecVal(body) ELSE DecVal(body))
        ELSE Raise("ValueError", <<"invalid literal for int() with base 10: ", "%r">>)

\* x << n and x >> n on Python's unbounded integers.
\* (variant: num << num_of_bits - 1)
ShiftLeftOffByOne(x, n) == x * Pow2(n - 1)

ShiftLeft(x, n) == x * Pow2(n)

ShiftRight(x, n) == x \div Pow2(n)

\* x & y for y >= 0 (two's complement of unbounded width for x < 0).
RECURSIVE BitAnd(_, _)
BitAnd(x, y) ==
    IF y = 0 THEN 0
    ELSE (x % 2) * (y % 2) + 2 * BitAnd(x \div 2, y \div 2)

-----------------------------------------------------------------------------
(* Exceptions *)

\* class HashVerException(BaseException)
HashVerExceptionBase == "BaseException"

BaseClass(cls) ==
    CASE cls = "HashVerException" -> HashVerExceptionBase
      [] cls = "ValueError"       -> "Exception"
      [] cls = "Exception"        -> "BaseException"
      [] OTHER                    -> "object"

RECURSIVE IsSubclass(_, _)
IsSubclass(cls, of) ==
    \/ cls = of
    \/ cls # "object" /\ IsSubclass(BaseClass(cls), of)

\* "except Exception as err": whether the handler catches outcome o.
ExceptException(o) == o.kind = "raise" /\ IsSubclass(o.exc, "Exception")

MsgNonLast ==
    <<"All version components except the last one  must be a numeric value. Current component value: ",
      "%s", ": ", "%s">>

MsgLast ==
    <<"Value of last component can only be a numeric value or a hyphen separated alphanumeric like 8-rc1. Current value: ",
      "%s", ": ", "%s">>

MsgArity == <<"%s", " must have as many dot separated components as ", "%s">>

MsgNotCompatible == <<"%d", " is not compatible with ", "%s">>

ParsingErrorPrefix == "Parsing Error: "

\* The outer try/except of both methods: an exception that "except Exception"
\* catches is raised again as HashVerException('Parsing Error: %s' % str(err));
\* any other exception propagates as it is.
OuterHandler(o) ==
    IF ExceptException(o)
    THEN Raise("HashVerException", <<ParsingErrorPrefix>> \o o.msg)
    ELSE o

-----------------------------------------------------------------------------
(* HashVer.get_num *)

\* One iteration of "for comp in components[:-1]": vpc.append(int(comp)),
\* a failure of int raised as HashVerException.
ParseNonLast(comp) ==
    LET r == int(comp)
    IN  IF ExceptException(r) THEN Raise("HashVerException", MsgNonLast) ELSE r

\* vpc.append(int(components[-1].split('-')[0]))
ParseLast(comp) ==
    LET r == int(split(comp, "-")[1])
    IN  IF ExceptException(r) THEN Raise("HashVerException", MsgLast) ELSE r

\* if len(bpc) != len(vpc)
\* (variant: only too few components are refused)
ArityMismatchFewer(bpc, vpc) == Len(bpc) > Len(vpc)

ArityMismatch(bpc, vpc) == Len(bpc) # Len(vpc)

Min(a, b) == IF a < b THEN a ELSE b

\* num after the first k iterations of "for cur_val, num_of_bits in zip(vpc, bpc)".
\* (variant: the shift is by the width of the previous component)
RECURSIVE ShiftAddPrevWidth(_, _, _)
ShiftAddPrevWidth(vpc, bpc, k) ==
    IF k = 0 THEN 0
    ELSE LET prev  == ShiftAddPrevWidth(vpc, bpc, k - 1)
             shift == k > 1
         IN  (IF shift THEN ShiftLeft(prev, bpc[k - 1]) ELSE prev) + vpc[k]

RECURSIVE ShiftAdd(_, _, _)
ShiftAdd(vpc, bpc, k) ==
    IF k = 0 THEN 0
    ELSE LET prev  == ShiftAdd(vpc, bpc, k - 1)
             shift == k > 1
         IN  (IF shift THEN ShiftLeft(prev, bpc[k]) ELSE prev) + vpc[k]

get_num_try(bpc, ver) ==
    LET components == split(ver, ".")
        n          == Len(components)
        head       == [i \in 1..(n - 1) |-> ParseNonLast(components[i])]
        last       == ParseLast(components[n])
        bad        == {i \in 1..(n - 1) : head[i].kind = "raise"}
    IN  IF bad # {}
        THEN head[CHOOSE i \in bad : \A j \in bad : i <= j]
        ELSE IF last.kind = "raise"
        THEN last
        ELSE LET vpc == [i \in 1..n |-> IF i < n THEN head[i].val ELSE last.val]
             IN  IF ArityMismatch(bpc, vpc)
                 THEN Raise("HashVerException", MsgArity)
                 ELSE ReturnInt(ShiftAdd(vpc, bpc, Min(Len(vpc), Len(bpc))))

get_num(bpc, ver) == OuterHandler(get_num_try(bpc, ver))

-----------------------------------------------------------------------------
(* HashVer.get_version_str *)

\* max_val = (2 ** num_of_bits) - 1
\* (variant: the mask is 2 ** num_of_bits)
MaxValNoMinusOne(num_of_bits) == Pow2(num_of_bits)

MaxVal(num_of_bits) == Pow2(num_of_bits) - 1

\* mut_num and components once "for num_of_bits in reversed(bpc)" has done
\* the widths bpc[n], bpc[n-1], ..., bpc[k].
\* (variant: components.append in place of components.insert(0, ...))
RECURSIVE DecodeLoopAppend(_, _, _)
DecodeLoopAppend(bpc, n, k) ==
    IF k > Len(bpc)
    THEN [mut_num |-> n, components |-> <<>>]
    ELSE LET s == DecodeLoopAppend(bpc, n, k + 1)
         IN  [mut_num    |-> ShiftRight(s.mut_num, bpc[k]),
              components |-> s.components \o <<str(BitAnd(s.mut_num, MaxVal(bpc[k])))>>]

RECURSIVE DecodeLoop(_, _, _)
DecodeLoop(bpc, n, k) ==
    IF k > Len(bpc)
    THEN [mut_num |-> n, components |-> <<>>]
    ELSE LET s == DecodeLoop(bpc, n, k + 1)
         IN  [mut_num    |-> ShiftRight(s.mut_num, bpc[k]),
              components |-> <<str(BitAnd(s.mut_num, MaxVal(bpc[k])))>> \o s.components]

\* (variant: no "if mut_num" test)
get_version_str_unchecked(bpc, n) ==
    ReturnStr(join(DecodeLoop(bpc, n, 1).components, "."))

get_version_str_try(bpc, n) ==
    LET s == DecodeLoop(bpc, n, 1)
    IN  IF s.mut_num # 0
        THEN Raise("HashVerException", MsgNotCompatible)
        ELSE ReturnStr(join(s.components, "."))

get_version_str(bpc, n) == OuterHandler(get_version_str_try(bpc, n))

\* bits_per_component after a call: both methods bind bpc to the list and only
\* read it (zip(vpc, bpc), reversed(bpc)).
\* (variant: bpc.reverse() in place of reversed(bpc))
BpcReversedInPlace(bpc) == [i \in 1..Len(bpc) |-> bpc[Len(bpc) + 1 - i]]

BpcAfterCall(bpc) == bpc

-----------------------------------------------------------------------------
(* Inputs *)

RECURSIVE Sum(_)
Sum(s) == IF Len(s) = 0 THEN 0 ELSE s[1] + Sum(Tail(s))

\* Every profile w_1..w_n with n >= 1, w_i >= 1 and at most MaxBits bits in all.
Profiles ==
    {p \in UNION {[1..n -> 1..MaxBits] : n \in 1..MaxBits} : Sum(p) <= MaxBits}

\* The component tuples of profile p with 0 <= v_i < 2^w_i + extra.
RECURSIVE Tuples(_, _)
Tuples(p, extra) ==
    IF Len(p) = 0 THEN {<<>>}
    ELSE {<<v>> \o t : v \in 0..(Pow2(p[1]) - 1 + extra), t \in Tuples(Tail(p), extra)}

\* "a.b.c" for the tuple <<a, b, c>>
Render(t) == join([i \in 1..Len(t) |-> str(t[i])], ".")

Alphabet == {"0", "1", "-", ".", "x"}

\* Every string over Alphabet of at most MaxLen characters.
RawStrings == UNION {[1..n -> Alphabet] : n \in 0..MaxLen}

\* The rendered tuples of every profile, values up to one past the range,
\* each also with the suffix "-x" on its last component.
TupleStrings ==
    UNION {UNION {{Render(t), Render(t) \o <<"-", "x">>} : t \in Tuples(p, 1)} :
           p \in Profiles}

VersionStrings == RawStrings \cup TupleStrings

\* get_version_str's arguments: -1, every value of the widest profile, and two more.
Nums == (-1)..(Pow2(MaxBits) + 1)

\* Arguments of the calls after an object's first call.
ProbeStrings ==
    {<<"1">>, <<"1", ".", "0">>, <<"0", ".", "1", ".", "1">>, <<"1", ".", "x">>}

ProbeNums == {1, Pow2(MaxBits)}

-----------------------------------------------------------------------------
(* HashVer.__init__ *)

\* A str argument is split on "." and every piece converted by int; a list is
\* kept as it is.
HashVerInit(arg, is_str) ==
    IF is_str
    THEN LET pieces == split(arg, ".")
         IN  [i \in 1..Len(pieces) |-> int(pieces[i]).val]
    ELSE arg

NewObjects ==
    {HashVerInit(p, FALSE) : p \in Profiles}
        \cup {HashVerInit(Render(p), TRUE) : p \in Profiles}

-----------------------------------------------------------------------------
(* Spec: calls on one HashVer object.  The first call takes any argument;   *)
(* later calls take a probe argument or the previous call's result.         *)

Init ==
    /\ ctor_bpc \in NewObjects
    /\ bits_per_component = ctor_bpc
    /\ op = "new"
    /\ version_str = <<>>
    /\ num = 0
    /\ ret = NoReturn
    /\ calls = 0
    /\ raised = FALSE
    /\ builds = <<>>
    /\ results = <<>>
    /\ argv = <<>>
    /\ out = <<>>
    /\ pc = "api"

\* hob.get_num(v)
GetNum(v) ==
    /\ calls < MaxCalls
    /\ op' = "get_num"
    /\ version_str' = v
    /\ num' = 0
    /\ ret' = get_num(bits_per_component, v)
    /\ bits_per_component' = BpcAfterCall(bits_per_component)
    /\ calls' = calls + 1
    /\ raised' = (raised \/ ret'.kind = "raise")
    /\ UNCHANGED <<ctor_bpc, builds, results, argv, out, pc>>

\* hob.get_version_str(x)
GetVersionStr(x) ==
    /\ calls < MaxCalls
    /\ op' = "get_version_str"
    /\ num' = x
    /\ version_str' = <<>>
    /\ ret' = get_version_str(bits_per_component, x)
    /\ bits_per_component' = BpcAfterCall(bits_per_component)
    /\ calls' = calls + 1
    /\ raised' = (raised \/ ret'.kind = "raise")
    /\ UNCHANGED <<ctor_bpc, builds, results, argv, out, pc>>

\* num = hob.get_num(ver); ver_str = hob.get_version_str(num): the second call.
DecodeRet ==
    /\ calls < MaxCalls
    /\ op = "get_num"
    /\ ret.kind = "int"
    /\ op' = "round_trip"
    /\ num' = ret.val
    /\ ret' = get_version_str(bits_per_component, ret.val)
    /\ bits_per_component' = BpcAfterCall(bits_per_component)
    /\ calls' = calls + 1
    /\ raised' = (raised \/ ret'.kind = "raise")
    /\ UNCHANGED <<ctor_bpc, version_str, builds, results, argv, out, pc>>

\* get_num applied to the string get_version_str has just returned.
EncodeRet ==
    /\ calls < MaxCalls
    /\ op = "get_version_str"
    /\ ret.kind = "str"
    /\ op' = "trip_back"
    /\ version_str' = ret.str
    /\ ret' = get_num(bits_per_component, ret.str)
    /\ bits_per_component' = BpcAfterCall(bits_per_component)
    /\ calls' = calls + 1
    /\ raised' = (raised \/ ret'.kind = "raise")
    /\ UNCHANGED <<ctor_bpc, num, builds, results, argv, out, pc>>

Next ==
    \/ calls = 0 /\ \E v \in VersionStrings : GetNum(v)
    \/ calls = 0 /\ \E x \in Nums : GetVersionStr(x)
    \/ calls > 0 /\ \E v \in ProbeStrings : GetNum(v)
    \/ calls > 0 /\ \E x \in ProbeNums : GetVersionStr(x)
    \/ DecodeRet
    \/ EncodeRet

Spec == Init /\ [][Next]_vars

-----------------------------------------------------------------------------
(* SpecPair: HashVerTests.spec_compare_semvers over a list of two builds.   *)

\* The builds tried under profile p: every tuple in range, and every tuple in
\* range but for a last component of 2^w_n, one past its range.
PairStrings(p) ==
    {Render(t) : t \in Tuples(p, 0)}
        \cup {Render([t EXCEPT ![Len(p)] = Pow2(p[Len(p)])]) : t \in Tuples(p, 0)}

\* prev when the loop reaches build i: 0, then the num of the last build passed.
RECURSIVE PrevNum(_)
PrevNum(done) ==
    IF Len(done) = 0 THEN 0
    ELSE IF done[Len(done)].verdict = "PASSED" THEN done[Len(done)].num.val
    ELSE PrevNum(SubSeq(done, 1, Len(done) - 1))

\* One iteration of "for ver in builds": the try block and its handler.  An
\* AssertionError is caught by "except Exception"; an exception that is not an
\* Exception leaves the loop.
TestBuild(bpc, ver, prev) ==
    LET n == get_num(bpc, ver)
        v == IF n.kind = "int" THEN get_version_str(bpc, n.val) ELSE NoReturn
        verdict ==
            IF n.kind = "raise"
            THEN (IF ExceptException(n) THEN "FAILED" ELSE "uncaught")
            ELSE IF v.kind = "raise"
            THEN (IF ExceptException(v) THEN "FAILED" ELSE "uncaught")
            ELSE IF split(ver, "-")[1] = v.str /\ prev < n.val
            THEN "PASSED"
            ELSE "FAILED"
    IN  [num |-> n, ver_str |-> v, verdict |-> verdict]

InitPair ==
    /\ ctor_bpc \in NewObjects
    /\ bits_per_component = ctor_bpc
    /\ builds \in {<<a, b>> : a \in PairStrings(ctor_bpc), b \in PairStrings(ctor_bpc)}
    /\ results = <<>>
    /\ op = "new"
    /\ version_str = <<>>
    /\ num = 0
    /\ ret = NoReturn
    /\ calls = 0
    /\ raised = FALSE
    /\ argv = <<>>
    /\ out = <<>>
    /\ pc = "test"

TestStep ==
    /\ Len(results) < Len(builds)
    /\ Len(results) > 0 => results[Len(results)].verdict # "uncaught"
    /\ results' = Append(results,
                         TestBuild(bits_per_component, builds[Len(results) + 1],
                                   PrevNum(results)))
    /\ bits_per_component' = BpcAfterCall(bits_per_component)
    /\ UNCHANGED <<ctor_bpc, op, version_str, num, ret, calls, raised, builds,
                   argv, out, pc>>

NextPair == TestStep

SpecPair == InitPair /\ [][NextPair]_vars

-----------------------------------------------------------------------------
(* SpecCLI: main() once the profile is taken from the command line.  The    *)
(* profiles are those of at most MaxBits bits, as given with --bpc; the      *)
(* default [16, 16, 16] is wider than the integers of the model.             *)

CliArgs ==
    {<<"1", ".", "0">>, <<"1", ".", "x">>, <<"0", ".", "1", ".", "1">>,
     <<"1", "-", "x">>, <<"3">>, <<"9", "9">>, <<>>}

InitCLI ==
    /\ ctor_bpc \in NewObjects
    /\ bits_per_component = ctor_bpc
    /\ argv \in UNION {[1..k -> CliArgs] : k \in 1..MaxArgs}
    /\ out = <<>>
    /\ pc = "loop"
    /\ op = "new"
    /\ version_str = <<>>
    /\ num = 0
    /\ ret = NoReturn
    /\ calls = 0
    /\ raised = FALSE
    /\ builds = <<>>
    /\ results = <<>>

\* if ver.isdigit(): ret = hob.get_version_str(int(ver)) else: ret = hob.get_num(ver)
Convert(bpc, ver) ==
    IF isdigit(ver) THEN get_version_str(bpc, int(ver).val) ELSE get_num(bpc, ver)

\* One iteration of "for ver in sys.argv[1:]": a result prints "<ver> : <ret>",
\* an exception that "except Exception" catches prints "<ver> : ERROR: <msg>",
\* any other exception leaves main() with the rest of the arguments unread.
MainStep ==
    /\ pc = "loop"
    /\ Len(out) < Len(argv)
    /\ LET ver == argv[Len(out) + 1]
           r   == Convert(bits_per_component, ver)
           line == [ver |-> ver, error |-> r.kind = "raise", ret |-> r]
       IN  IF r.kind = "raise" /\ ~ExceptException(r)
           THEN /\ pc' = "crashed"
                /\ out' = out
           ELSE /\ out' = Append(out, line)
                /\ pc' = IF Len(out) + 1 = Len(argv) THEN "done" ELSE "loop"
    /\ bits_per_component' = BpcAfterCall(bits_per_component)
    /\ UNCHANGED <<ctor_bpc, op, version_str, num, ret, calls, raised, builds,
                   results, argv>>

NextCLI == MainStep

SpecCLI == InitCLI /\ [][NextCLI]_vars

-----------------------------------------------------------------------------
(* Vocabulary of the properties *)

\* A non-negative base-10 integer: digits only, at least one.
Numeral(tok) == isdigit(tok)

\* A numeral as str writes it: no leading zero but for "0" itself.
Canonical(tok) == isdigit(tok) /\ (Len(tok) = 1 \/ tok[1] # "0")

\* The last component up to its first hyphen.
BeforeHyphen(tok) == split(tok, "-")[1]

\* The numeric text of every component of v.
Tokens(v) ==
    LET c == split(v, ".")
    IN  [i \in 1..Len(c) |-> IF i < Len(c) THEN c[i] ELSE BeforeHyphen(c[i])]

\* v with everything from the first hyphen of its last component removed.
StripSuffix(v) == join(Tokens(v), ".")

AllNumerals(v) == \A i \in 1..Len(Tokens(v)) : Numeral(Tokens(v)[i])

Values(v) == [i \in 1..Len(Tokens(v)) |-> DecVal(Tokens(v)[i])]

\* Every component is accepted by int (a numeral, or "-" and a numeral).
AllParse(v) == \A i \in 1..Len(Tokens(v)) : int(Tokens(v)[i]).kind = "int"

ParsedValues(v) == [i \in 1..Len(Tokens(v)) |-> int(Tokens(v)[i]).val]

\* n components, every one a numeral of a value in [0, 2^w_i).
WellFormed(bpc, v) ==
    /\ Len(Tokens(v)) = Len(bpc)
    /\ AllNumerals(v)
    /\ \A i \in 1..Len(bpc) : Values(v)[i] < Pow2(bpc[i])

CanonicalWellFormed(bpc, v) ==
    /\ WellFormed(bpc, v)
    /\ \A i \in 1..Len(bpc) : Canonical(Tokens(v)[i])

\* Component-wise comparison, most-significant component first: -1, 0 or 1.
Compare(a, b) ==
    IF a = b THEN 0
    ELSE LET k == CHOOSE i \in 1..Len(a) :
                    a[i] # b[i] /\ \A j \in 1..(i - 1) : a[j] = b[j]
         IN  IF a[k] < b[k] THEN -1 ELSE 1

Sign(x) == IF x < 0 THEN -1 ELSE IF x = 0 THEN 0 ELSE 1

\* w_(i+1) + ... + w_n
BitsBelow(bpc, i) == Sum(SubSeq(bpc, i + 1, Len(bpc)))

\* v_1 * 2^BitsBelow(1) + ... + v_n * 2^BitsBelow(n)
RECURSIVE WeightedSum(_, _, _)
WeightedSum(vals, bpc, i) ==
    IF i > Len(bpc) THEN 0
    ELSE vals[i] * Pow2(BitsBelow(bpc, i)) + WeightedSum(vals, bpc, i + 1)

\* The bits of x in slot i.
Slot(bpc, x, i) == (x \div Pow2(BitsBelow(bpc, i))) % Pow2(bpc[i])

IsHashVerError(o, m) ==
    /\ o.kind = "raise"
    /\ o.exc = "HashVerException"
    /\ o.msg = m \/ o.msg = <<ParsingErrorPrefix>> \o m

IsParseError(o) == IsHashVerError(o, MsgNonLast) \/ IsHashVerError(o, MsgLast)

IsArityError(o) == IsHashVerError(o, MsgArity)

IsOverflowError(o) == IsHashVerError(o, MsgNotCompatible)

Encoded == op \in {"get_num", "trip_back"}

Decoded == op \in {"get_version_str", "round_trip"}

-----------------------------------------------------------------------------
(* Properties *)

\* C1 as stated: for every version string with n components, each a numeral
\* of a value in [0, 2^w_i), the last one optionally followed by a hyphen
\* suffix, get_num succeeds and get_version_str of its result is the string
\* with the suffix removed.
C1_RoundTripAnyNumeral ==
    /\ op = "get_num" /\ WellFormed(bits_per_component, version_str)
           => ret.kind = "int"
    /\ op = "round_trip" /\ WellFormed(bits_per_component, version_str)
           => ret.kind = "str" /\ ret.str = StripSuffix(version_str)

\* C1 amended: the same, for the strings whose components are canonical
\* decimal numerals (digits only, no leading zero other than "0" itself).
C1_RoundTripCanonical ==
    /\ op = "get_num" /\ CanonicalWellFormed(bits_per_component, version_str)
           => ret.kind = "int"
    /\ op = "round_trip" /\ CanonicalWellFormed(bits_per_component, version_str)
           => ret.kind = "str" /\ ret.str = StripSuffix(version_str)

C1_Witness ==
    /\ op = "round_trip"
    /\ CanonicalWellFormed(bits_per_component, version_str)
    /\ Len(bits_per_component) >= 2
    /\ Values(version_str)[1] # Values(version_str)[2]
    /\ StripSuffix(version_str) # version_str
    /\ ret.str = StripSuffix(version_str)

\* C2: for two valid version strings A and B under one profile, get_num
\* succeeds on both, and the component-wise comparison of A and B, most
\* significant component first, is the integer comparison of get_num(A) and
\* get_num(B).
C2_OrderPreserved ==
    /\ Len(results) >= 1 /\ WellFormed(bits_per_component, builds[1])
           => results[1].num.kind = "int" /\ results[1].verdict # "uncaught"
    /\ /\ Len(results) = 2
       /\ WellFormed(bits_per_component, builds[1])
       /\ WellFormed(bits_per_component, builds[2])
       => /\ results[2].num.kind = "int"
          /\ Compare(Values(builds[1]), Values(builds[2]))
                 = Sign(results[1].num.val - results[2].num.val)

C2_Witness ==
    /\ Len(results) = 2
    /\ Len(bits_per_component) >= 2
    /\ WellFormed(bits_per_component, builds[1])
    /\ WellFormed(bits_per_component, builds[2])
    /\ Values(builds[1])[1] < Values(builds[2])[1]
    /\ Values(builds[1])[2] > Values(builds[2])[2]
    /\ results[1].num.val < results[2].num.val

\* C3: get_num and get_version_str are inverse bijections between the
\* component tuples in range and the integers [0, 2^(w_1+...+w_n)): get_num
\* of a tuple in range is an integer of that range from which get_version_str
\* recovers the tuple (so distinct tuples give distinct integers), and for
\* every x of the range get_version_str(x) succeeds with n components in
\* range and get_num of it is x.
C3_Bijection ==
    /\ op = "get_num" /\ WellFormed(bits_per_component, version_str)
           => /\ ret.kind = "int"
              /\ 0 <= ret.val
              /\ ret.val < Pow2(Sum(bits_per_component))
    /\ op = "round_trip" /\ WellFormed(bits_per_component, version_str)
           => /\ ret.kind = "str"
              /\ AllNumerals(ret.str)
              /\ Values(ret.str) = Values(version_str)
    /\ op = "get_version_str" /\ 0 <= num /\ num < Pow2(Sum(bits_per_component))
           => ret.kind = "str" /\ CanonicalWellFormed(bits_per_component, ret.str)
    /\ op = "trip_back" /\ 0 <= num /\ num < Pow2(Sum(bits_per_component))
           => ret.kind = "int" /\ ret.val = num

C3_Witness ==
    /\ op = "trip_back"
    /\ Len(bits_per_component) >= 2
    /\ bits_per_component[1] # bits_per_component[2]
    /\ num = Pow2(Sum(bits_per_component)) - 2
    /\ ret.kind = "int"
    /\ ret.val = num

\* C4: get_num fails with a parse error whenever a component other than the
\* last, or the last component up to its first hyphen, is not a non-negative
\* base-10 integer.
C4_ParseErrorOnNonNumeral ==
    op = "get_num" /\ ~AllNumerals(version_str) => IsParseError(ret)

\* C5: when every component parses, get_num fails with an arity error if the
\* number of components differs from the number of widths, and returns an
\* integer only when the two are equal.
C5_ArityError ==
    Encoded =>
        /\ /\ AllParse(version_str)
           /\ Len(Tokens(version_str)) # Len(bits_per_component)
           => IsArityError(ret)
        /\ ret.kind = "int" => Len(Tokens(version_str)) = Len(bits_per_component)

C5_Witness ==
    /\ op = "get_num"
    /\ AllNumerals(version_str)
    /\ Len(Tokens(version_str)) > Len(bits_per_component)
    /\ IsArityError(ret)

\* C6: for x >= 0, get_version_str(x) fails with an overflow error exactly
\* when x >= 2^(w_1+...+w_n); for a smaller x it returns the n slots of x,
\* in decimal, joined with ".".
C6_OverflowExactly ==
    Decoded /\ num >= 0 =>
        /\ IsOverflowError(ret) <=> num >= Pow2(Sum(bits_per_component))
        /\ num < Pow2(Sum(bits_per_component))
               => /\ ret.kind = "str"
                  /\ ret.str = join([i \in 1..Len(bits_per_component) |->
                                         str(Slot(bits_per_component, num, i))], ".")

C6_Witness ==
    /\ op = "get_version_str"
    /\ Len(bits_per_component) >= 2
    /\ num = Pow2(Sum(bits_per_component))
    /\ IsOverflowError(ret)

\* C7: every failure of get_num and get_version_str reaches the caller as a
\* HashVerException whose message begins with "Parsing Error: ".
C7_ParsingErrorPrefix ==
    ret.kind = "raise" =>
        /\ ret.exc = "HashVerException"
        /\ Len(ret.msg) > 0
        /\ ret.msg[1] = ParsingErrorPrefix

\* C8: main() ends with one line printed per argument, a failing argument
\* printing its ERROR line and the loop going on to the arguments after it.
C8_OneLinePerArgument ==
    pc # "loop" => pc = "done" /\ Len(out) = Len(argv)

\* C9: for a version string whose n components parse to values v_1..v_n >= 0,
\* in range or not, get_num returns v_1 * 2^(w_2+...+w_n) + ... + v_n: nothing
\* is rejected or clamped.
C9_ShiftAddSum ==
    /\ Encoded
    /\ Len(Tokens(version_str)) = Len(bits_per_component)
    /\ AllParse(version_str)
    /\ \A i \in 1..Len(bits_per_component) : ParsedValues(version_str)[i] >= 0
    => /\ ret.kind = "int"
       /\ ret.val = WeightedSum(ParsedValues(version_str), bits_per_component, 1)

C9_Witness ==
    /\ op = "get_num"
    /\ Len(Tokens(version_str)) = Len(bits_per_component)
    /\ Len(bits_per_component) >= 2
    /\ AllNumerals(version_str)
    /\ Values(version_str)[2] >= Pow2(bits_per_component[2])
    /\ ret.kind = "int"
    /\ ret.val >= Pow2(Sum(bits_per_component))

\* C10: whatever calls were made on the object, succeeding or failing, its
\* bits_per_component is the one it was constructed with, and the last call
\* has the outcome the same call has on a newly constructed object.
C10_ProfileUnchanged ==
    /\ bits_per_component = ctor_bpc
    /\ Encoded => ret = get_num(ctor_bpc, version_str)
    /\ Decoded => ret = get_version_str(ctor_bpc, num)

C10_Witness ==
    /\ calls >= 3
    /\ raised
    /\ ret.kind = "int"
    /\ Len(bits_per_component) >= 2
    /\ bits_per_component[1] # bits_per_component[2]

====
